---- MODULE Spec2Model ----
(***************************************************************************)
(* Avtomat.StateMachine (src/src/avtomat.js, version 1.1): a               *)
(* non-deterministic finite state machine with empty moves.                *)
(*                                                                         *)
(* The machine's private fields are the variables; every privileged       *)
(* member (input, reset, state, accepted, nullState, addState, ...) is one *)
(* action that models the whole call, its recursive empty-move passes      *)
(* included.  Arrays are JavaScript objects with identity: the array that  *)
(* _cState refers to is handed out by reference, so the model keeps the    *)
(* array the caller holds and whether it is the very array _cState refers  *)
(* to.                                                                     *)
(***************************************************************************)
EXTENDS Integers, Sequences, FiniteSets, TLC

VARIABLES
    states,        \* _states: id -> [final, transitions, length, events]
    events,        \* _events: the handlers bound to the machine's events
    startStateId,  \* _startStateId
    cState,        \* contents of the array _cState refers to
    held,          \* contents of the array the caller kept from an earlier return
    heldIsCState,  \* TRUE iff that array is the array _cState refers to
    lastCall,      \* the last privileged member called, and how it ended
    edits,         \* number of state-table changes made so far
    binds          \* number of bindStateEvent/bindMachineEvent calls made so far

vars == <<states, events, startStateId, cState, held, heldIsCState, lastCall, edits, binds>>

----------------------------------------------------------------------------
(* Bounds of the model *)

\* Number of nested _input frames the JavaScript stack holds before a
\* RangeError (maximum call stack size exceeded).
MaxStack == 6

\* Number of addState/deleteState/addTransition/deleteTransition calls in a run.
MaxEdits == 1

\* Number of bindStateEvent/bindMachineEvent calls in a run.
MaxBinds == 2

----------------------------------------------------------------------------
(* Values *)

\* _nullStateId = null (the property key it indexes _states with is "null")
nullStateId == "null"

\* _emptyInput = ""
emptyInput == ""

\* typeof(startState) === "undefined": the argument was not passed
Undefined == "undefined"

\* A transition destination is a state id by itself or an array of state ids.
Single(id) == [isArray |-> FALSE, ids |-> <<id>>]
Many(ids) == [isArray |-> TRUE, ids |-> ids]

\* JavaScript truthiness of a stored destination: null is falsy, a non-empty
\* string and any array (the empty array too) are truthy.
Truthy(dest) == dest.isArray \/ dest.ids[1] # nullStateId

\* transitions: [] of a blank state: no key at all
NoTransitions == [input \in {} |-> Single(nullStateId)]

\* The keys of a state's events object and of _events
StateEventTypes == {"arriving", "arrive", "leaving", "leave"}

MachineEventTypes == {"changing", "change"}

\* events: {arriving: [], arrive: [], leaving: [], leave: []} of a blank state
NoStateEvents == [type \in StateEventTypes |-> << >>]

\* _events = {changing: [], change: []}
NoMachineEvents == [type \in MachineEventTypes |-> << >>]

\* A handler is a function of the caller's; the one named Failing throws
\* when it is called, every other one returns.
Failing == "thrower"

\* The handler named Observing calls state() and keeps a copy of what it
\* returns; the handler named Reentering calls input(ReentrySymbol).
Observing == "observer"

Reentering == "reenterer"

ReentrySymbol == "a"

\* What is written down of an event that belongs to the machine, not to a state
Machine == "(machine)"

----------------------------------------------------------------------------
(* The state table *)

\* transitions is an array, and its length follows the array indices among
\* its keys: of the symbols of the model "0" and "1" are array indices, every
\* other symbol is the name of a plain property.
ArrayIndex(input) ==
    CASE input = "0" -> 0
      [] input = "1" -> 1
      [] OTHER -> -1

\* The length of an array after array[input] = value: an index at or past
\* the length moves the length right behind it, no other key touches it.
lengthAfterSet(length, input) ==
    IF ArrayIndex(input) >= length THEN ArrayIndex(input) + 1 ELSE length

createBlankState ==
    [final |-> FALSE, transitions |-> NoTransitions, length |-> 0,
     events |-> NoStateEvents]

setFinal(st, id, bFinal) ==
    IF id # nullStateId
    THEN [st EXCEPT ![id].final = bFinal]
    ELSE st

addTransition(st, idFrom, input, idTo) ==
    [st EXCEPT ![idFrom].transitions =
                    [i \in DOMAIN @ \cup {input} |-> IF i = input THEN idTo ELSE @[i]],
               ![idFrom].length = lengthAfterSet(@, input)]

\* delete _states[id].transitions[input]: the key goes, the length of the
\* array stays
deleteTransition(st, id, input) ==
    [st EXCEPT ![id].transitions = [i \in DOMAIN @ \ {input} |-> @[i]]]

deleteState(st, id) == [k \in DOMAIN st \ {id} |-> st[k]]

\* for(var input in transitions) _addTransition(id, input, transitions[input]);
\* an undefined transitions argument is given as NoTransitions: either way
\* no transition is added.
addTransitionsOf(st, id, transitions) ==
    [st EXCEPT ![id].transitions =
                    [i \in DOMAIN @ \cup DOMAIN transitions |->
                        IF i \in DOMAIN transitions THEN transitions[i] ELSE @[i]],
               ![id].length =
                    LET indices == {ArrayIndex(i) : i \in DOMAIN transitions}
                        last == CHOOSE k \in indices : \A other \in indices : other <= k
                    IN  IF indices # {} /\ last >= @ THEN last + 1 ELSE @]

\* _addState on the pair (table, start state id)
\* An _addState that calls _setStartState(id) for every state it creates
addStateLastIsStart(m, id, isFinal, transitions) ==
    IF id \notin DOMAIN m.states
    THEN LET blank == [k \in DOMAIN m.states \cup {id} |->
                          IF k = id THEN createBlankState ELSE m.states[k]]
         IN  [states |-> IF id # nullStateId
                         THEN addTransitionsOf(setFinal(blank, id, isFinal), id, transitions)
                         ELSE blank,
              start |-> id]
    ELSE m

\* An _addState without the test typeof(_states[id]) === "undefined"
addStateOverwrites(m, id, isFinal, transitions) ==
    LET blank == [k \in DOMAIN m.states \cup {id} |->
                     IF k = id THEN createBlankState ELSE m.states[k]]
    IN  [states |-> IF id # nullStateId
                    THEN addTransitionsOf(setFinal(blank, id, isFinal), id, transitions)
                    ELSE blank,
         start |-> IF m.start = nullStateId THEN id ELSE m.start]

addState(m, id, isFinal, transitions) ==
    IF id \notin DOMAIN m.states
    THEN LET start == IF m.start = nullStateId THEN id ELSE m.start
             blank == [k \in DOMAIN m.states \cup {id} |->
                          IF k = id THEN createBlankState ELSE m.states[k]]
         IN  [states |-> IF id # nullStateId
                         THEN addTransitionsOf(setFinal(blank, id, isFinal), id, transitions)
                         ELSE blank,
              start |-> start]
    ELSE m

\* No argument passed to a member that takes a state id or an array of them
NoArgument == [isArray |-> FALSE, ids |-> << >>]

\* The name a state, or a destination, can have like any other
UndefinedName == "undefined"

\* _hasTransition: _states[id].transitions[input] !== "undefined" ||
\* input === _emptyInput.  The value stored for the input is compared with
\* the string "undefined": an array, a stored null, and the undefined of a
\* key that is not there all differ from it, and only a destination that is
\* the id "undefined" does not.
hasTransition(st, id, input) ==
    IF id \notin DOMAIN st
    THEN [flag |-> FALSE, err |-> "TypeError"]
    ELSE LET tr == st[id].transitions
             isTheString == /\ input \in DOMAIN tr
                            /\ ~tr[input].isArray
                            /\ tr[input].ids[1] = UndefinedName
         IN  [flag |-> ~isTheString \/ input = emptyInput, err |-> "none"]

\* _hasTransitions(id): _states[id].transitions.length > 0
hasTransitionsOf(st, id) ==
    IF id \in DOMAIN st
    THEN [flag |-> st[id].length > 0, err |-> "none"]
    ELSE [flag |-> FALSE, err |-> "TypeError"]

\* The property name for(var state in id) gives for the element number k
\* (from 1) of the array id: its index, as a string
IndexKey(k) ==
    CASE k = 1 -> "0"
      [] k = 2 -> "1"
      [] OTHER -> "2"

\* The for(var state in id) loop of hasTransitions from element k on:
\* b = b || _hasTransitions(state), where state is the index of the element,
\* and _hasTransitions is not called once b is true.
RECURSIVE hasTransitionsFrom(_, _, _, _)
hasTransitionsFrom(st, ids, k, b) ==
    IF k > Len(ids)
    THEN [flag |-> b, err |-> "none"]
    ELSE IF b
    THEN hasTransitionsFrom(st, ids, k + 1, b)
    ELSE IF hasTransitionsOf(st, IndexKey(k)).err # "none"
    THEN hasTransitionsOf(st, IndexKey(k))
    ELSE hasTransitionsFrom(st, ids, k + 1, hasTransitionsOf(st, IndexKey(k)).flag)

\* hasTransitions(id): with no argument id becomes the array _cState and the
\* else-if branch for arrays is passed over, so that the last line answers
\* typeof(id) === "string" for an array: false.
hasTransitions(st, cs, arg) ==
    IF arg = NoArgument
    THEN [flag |-> FALSE, err |-> "none"]
    ELSE IF arg.isArray
    THEN hasTransitionsFrom(st, arg.ids, 1, FALSE)
    ELSE hasTransitionsOf(st, arg.ids[1])

\* _bindStateEvent: _states[stateId].events[type].push(fn).  _states[stateId]
\* of a state that is not there is undefined, and so is events[type] of a
\* type that is no key of events: reading a property of undefined is a
\* TypeError, and nothing has been pushed.
bindStateEvent(st, stateId, type, fn) ==
    IF stateId \in DOMAIN st /\ type \in StateEventTypes
    THEN [states |-> [st EXCEPT ![stateId].events[type] = Append(@, fn)], err |-> "none"]
    ELSE [states |-> st, err |-> "TypeError"]

\* _bindMachineEvent: _events[type].push(fn)
bindMachineEvent(ev, type, fn) ==
    IF type \in MachineEventTypes
    THEN [events |-> [ev EXCEPT ![type] = Append(@, fn)], err |-> "none"]
    ELSE [events |-> ev, err |-> "TypeError"]

----------------------------------------------------------------------------
(* The transition engine: _input *)

\* (a changed defaultDest: the state is not kept on the empty input)
defaultDestNull(oldState, input) == nullStateId

\* (a changed defaultDest: the state is kept on every input)
defaultDestKeeps(oldState, input) == oldState

\* (input === _emptyInput ? oldState : _nullStateId): a state with no
\* destination for the input keeps itself on the empty input and goes to the
\* null state on any other.
defaultDest(oldState, input) ==
    IF input = emptyInput THEN oldState ELSE nullStateId

\* (a changed destStates: of an array of destinations only the first is taken)
destStatesFirstOnly(st, oldState, input) ==
    LET tr == st[oldState].transitions
    IN  IF input \in DOMAIN tr /\ Truthy(tr[input])
        THEN <<tr[input].ids[1]>>
        ELSE <<defaultDest(oldState, input)>>

\* _states[oldState].transitions[input] || (the default), turned into an array
destStates(st, oldState, input) ==
    LET tr == st[oldState].transitions
    IN  IF input \in DOMAIN tr /\ Truthy(tr[input])
        THEN tr[input].ids
        ELSE <<defaultDest(oldState, input)>>

\* var newStates = []
newStatesAtEntry == << >>

\* (a changed isNewDest: the test of containsState is left out)
isNotNullDest(newStates, dest) == dest # nullStateId

\* (a changed isNewDest: the null state is not told from the others)
isNotContainedDest(newStates, dest) ==
    ~\E k \in 1..Len(newStates) : newStates[k] = dest

\* !containsState && destStates[j] !== _nullStateId
isNewDest(newStates, dest) ==
    LET containsState == \E k \in 1..Len(newStates) : newStates[k] = dest
    IN  ~containsState /\ dest # nullStateId

\* The entries of the log of a call, in the order things happen in it:
\* _executeEvents is called for an event (of a state, or of the machine), a
\* handler is called, a state is shifted out of srcStates, a state is pushed
\* onto newStates, newStates is assigned to _cState.
Fired(type, id) == [kind |-> "fire", type |-> type, id |-> id, fn |-> ""]
Invoked(type, id, fn) == [kind |-> "invoke", type |-> type, id |-> id, fn |-> fn]
Shifted(id) == [kind |-> "shift", type |-> "", id |-> id, fn |-> ""]
Pushed(id) == [kind |-> "push", type |-> "", id |-> id, fn |-> ""]
Assigned == [kind |-> "assign", type |-> "", id |-> Machine, fn |-> ""]

\* A state of the array state() returned to the handler Observing, called
\* for the event type
Seen(type, id) == [kind |-> "see", type |-> type, id |-> id, fn |-> Observing]

\* (a changed Throws: the failure of a handler is swallowed)
ThrowsNever(fn) == FALSE

\* eventArray[e](): the call of a handler throws or returns
Throws(fn) == fn = Failing

\* A frame of _input while it runs is the record
\*   rest      what is left in srcStates
\*   shifted   the states shifted out of srcStates so far
\*   newStates the array newStates
\*   cur       the array _cState refers to: "src" (srcStates, the array it
\*             referred to when the frame was entered), "new" (newStates),
\*             or "det", an array of a call a handler made, which this
\*             frame has no other reference to
\*   det       that array
\*   log       what has happened in the call so far
\*   err       "none", or the error that has ended the frame
\*   st, ev, depth   _states, _events, and the number of the frame
\* Every step of the frame takes this record and gives the next one; a step
\* of a frame that has ended with an error is not taken.

\* The array _cState refers to
cStateOf(run) ==
    CASE run.cur = "src" -> run.rest
      [] run.cur = "new" -> run.newStates
      [] OTHER -> run.det

\* _getCurrentStates called by the handler Observing
RECURSIVE getCurrentStates(_, _, _, _)
getCurrentStates(type, cs, i, log) ==
    IF i > Len(cs) THEN log
    ELSE getCurrentStates(type, cs, i + 1, Append(log, Seen(type, cs[i])))

RECURSIVE input(_, _, _, _, _, _)

\* The frame of a handler after the call of input the handler made has
\* ended with r: the call has worked on the array _cState referred to, and
\* _cState refers to another array if the call got as far as assigning it.
reentered(run, r) ==
    [run EXCEPT !.rest = IF run.cur = "src" THEN r.left ELSE @,
                !.newStates = IF run.cur = "new" THEN r.left ELSE @,
                !.det = IF r.moved THEN r.cState
                        ELSE IF run.cur = "det" THEN r.left ELSE @,
                !.cur = IF r.moved THEN "det" ELSE @,
                !.log = r.log,
                !.err = r.err]

\* eventArray[e](): the handler fn is called for the event type of id
invoke(fn, type, id, run) ==
    IF Throws(fn)
    THEN [run EXCEPT !.log = Append(@, Invoked(type, id, fn)), !.err = "HandlerError"]
    ELSE IF fn = Observing
    THEN [run EXCEPT !.log = getCurrentStates(type, cStateOf(run), 1,
                                              Append(@, Invoked(type, id, fn)))]
    ELSE IF fn = Reentering
    THEN IF run.depth >= MaxStack
         THEN [run EXCEPT !.log = Append(@, Invoked(type, id, fn)), !.err = "RangeError"]
         ELSE reentered(run, input(run.st, run.ev, cStateOf(run), ReentrySymbol,
                                   run.depth + 1, Append(run.log, Invoked(type, id, fn))))
    ELSE [run EXCEPT !.log = Append(@, Invoked(type, id, fn))]

\* The for(e in eventArray) loop from index e on: the handlers are called in
\* index order; a handler that throws ends the loop and the call.
RECURSIVE invokeFrom(_, _, _, _, _)
invokeFrom(eventArray, e, type, id, run) ==
    IF e > Len(eventArray)
    THEN run
    ELSE IF run.err # "none"
    THEN run
    ELSE invokeFrom(eventArray, e + 1, type, id, invoke(eventArray[e], type, id, run))

\* (a changed executeEvents: the handlers are called last bound first)
executeEventsBackwards(eventArray, type, id, run) ==
    invokeFrom([e \in 1..Len(eventArray) |-> eventArray[Len(eventArray) + 1 - e]],
               1, type, id, [run EXCEPT !.log = Append(@, Fired(type, id))])

\* (a changed executeEvents: the events of the machine are not fired)
executeEventsOfStates(eventArray, type, id, run) ==
    IF id = Machine
    THEN run
    ELSE invokeFrom(eventArray, 1, type, id, [run EXCEPT !.log = Append(@, Fired(type, id))])

\* (a changed executeEvents: arriving is not fired)
executeEventsButArriving(eventArray, type, id, run) ==
    IF type = "arriving"
    THEN run
    ELSE invokeFrom(eventArray, 1, type, id, [run EXCEPT !.log = Append(@, Fired(type, id))])

\* (a changed executeEvents: arrive is not fired)
executeEventsButArrive(eventArray, type, id, run) ==
    IF type = "arrive"
    THEN run
    ELSE invokeFrom(eventArray, 1, type, id, [run EXCEPT !.log = Append(@, Fired(type, id))])

\* _executeEvents(eventArray), for the event type of state id (or of the machine)
executeEvents(eventArray, type, id, run) ==
    invokeFrom(eventArray, 1, type, id, [run EXCEPT !.log = Append(@, Fired(type, id))])

\* _executeEvents(_events[type])
fireMachineEvent(ev, type, run) ==
    IF run.err # "none"
    THEN run
    ELSE executeEvents(ev[type], type, Machine, run)

\* _executeEvents(_states[id].events[type]): _states[id] of a state that has
\* no entry in _states is undefined, and reading its events is a TypeError.
fireStateEvent(st, id, type, run) ==
    IF run.err # "none"
    THEN run
    ELSE IF id \notin DOMAIN st
    THEN [run EXCEPT !.err = "TypeError"]
    ELSE executeEvents(st[id].events[type], type, id, run)

\* var oldState = srcStates.shift()
shift(run) ==
    [run EXCEPT !.rest = Tail(@),
                !.shifted = Append(@, Head(run.rest)),
                !.log = Append(@, Shifted(Head(run.rest)))]

\* newStates.push(destStates[j])
push(dest, run) ==
    IF run.err # "none"
    THEN run
    ELSE [run EXCEPT !.newStates = Append(@, dest), !.log = Append(@, Pushed(dest))]

\* _cState = newStates
assign(run) ==
    IF run.err # "none"
    THEN run
    ELSE [run EXCEPT !.cur = "new", !.log = Append(@, Assigned)]

\* The for(j) loop over the destinations of oldState: each destination that
\* is not yet in newStates and is not the null state gets leave of oldState,
\* its own arriving, the push and its own arrive.
RECURSIVE pushDests(_, _, _, _, _)
pushDests(st, oldState, dests, j, run) ==
    IF run.err # "none"
    THEN run
    ELSE IF j > Len(dests)
    THEN run
    ELSE IF isNewDest(run.newStates, dests[j])
    THEN pushDests(st, oldState, dests, j + 1,
            fireStateEvent(st, dests[j], "arrive",
                push(dests[j],
                    fireStateEvent(st, dests[j], "arriving",
                        fireStateEvent(st, oldState, "leave", run)))))
    ELSE pushDests(st, oldState, dests, j + 1, run)

\* The destinations of oldState are looked up once it is known to have an
\* entry in _states (its leaving has been fired), and then pushed.
pushDestsOf(st, oldState, sym, run) ==
    IF run.err # "none"
    THEN run
    ELSE pushDests(st, oldState, destStates(st, oldState, sym), 1, run)

\* The while loop: srcStates is emptied from the front, and each state
\* shifted out gets its leaving before its destinations are looked at.
RECURSIVE drain(_, _, _)
drain(st, sym, run) ==
    IF run.err # "none"
    THEN run
    ELSE IF Len(run.rest) = 0
    THEN run
    ELSE drain(st, sym,
               pushDestsOf(st, Head(run.rest), sym,
                           fireStateEvent(st, Head(run.rest), "leaving", shift(run))))

\* (a changed haveEmptyMoves: no empty-move pass is ever made)
haveNoEmptyMoves(st, newStates) == FALSE

\* (a changed haveEmptyMoves: only newStates[0] is looked at)
firstHasEmptyMoves(st, newStates) ==
    /\ Len(newStates) > 0
    /\ emptyInput \in DOMAIN st[newStates[1]].transitions

\* (a changed haveEmptyMoves: only the last of newStates is looked at)
lastHasEmptyMoves(st, newStates) ==
    /\ Len(newStates) > 0
    /\ emptyInput \in DOMAIN st[newStates[Len(newStates)]].transitions

\* haveEmptyMoves after the loop
haveEmptyMoves(st, newStates) ==
    /\ Len(newStates) > 0
    /\ \E l \in 1..Len(newStates) : emptyInput \in DOMAIN st[newStates[l]].transitions

\* What a call of _input gives:
\*   cState    contents of the array _cState refers to when the call ends
\*   left      contents, when the call ends, of the array _cState referred
\*             to when the call began
\*   moved     TRUE iff _cState no longer refers to that array
\*   sameArray TRUE iff it still does and the frame is the outermost
\*   err       "none", or the error the call throws
\*   passes    the states shifted out of srcStates, frame by frame (of the
\*             frame called and the frames it opens for the empty moves)
\*   log       what happened in the call, in order
ended(done, err) ==
    [cState |-> cStateOf(done), left |-> done.rest, moved |-> done.cur # "src",
     sameArray |-> done.cur = "src" /\ done.depth = 1, err |-> err,
     passes |-> <<done.shifted>>, log |-> done.log]

\* The frame has called _input("") for the empty moves, and that call ended
\* with r: return _cState
emptyMovesMade(done, r) ==
    [cState |-> r.cState, left |-> done.rest, moved |-> TRUE, sameArray |-> FALSE,
     err |-> r.err, passes |-> <<done.shifted>> \o r.passes, log |-> r.log]

\* One call of _input in frame number depth, with the frames it opens.
input(st, ev, cs, sym, depth, log) ==
    LET entered == [rest |-> cs, shifted |-> << >>, newStates |-> newStatesAtEntry,
                    cur |-> "src", det |-> << >>,
                    log |-> log, err |-> "none", st |-> st, ev |-> ev, depth |-> depth]
        done == fireMachineEvent(ev, "change",
                    assign(drain(st, sym, fireMachineEvent(ev, "changing", entered))))
    IN  IF done.err # "none"
        THEN ended(done, done.err)
        ELSE IF haveEmptyMoves(st, done.newStates)
        THEN IF depth >= MaxStack
             THEN ended(done, "RangeError")
             ELSE emptyMovesMade(done, input(st, ev, cStateOf(done), emptyInput,
                                             depth + 1, done.log))
        ELSE ended(done, "none")

\* _reset: _cState = [_startStateId]; _input("")
reset(st, ev, start) == input(st, ev, <<start>>, emptyInput, 1, << >>)

\* What a call that ended in a RangeError can leave in the array _cState
\* refers to: the stack ran out somewhere in the deepest frame, before or
\* after any of its shifts.
Suffixes(s) == {SubSeq(s, k, Len(s)) : k \in 1..(Len(s) + 1)}

Outcomes(r) == IF r.err = "RangeError" THEN Suffixes(r.cState) ELSE {r.cState}

\* (a changed isAccepted: only _cState[0] is looked at)
isFirstAccepted(st, cs, i) ==
    IF Len(cs) = 0
    THEN [flag |-> FALSE, err |-> "none"]
    ELSE IF cs[1] \notin DOMAIN st
    THEN [flag |-> FALSE, err |-> "TypeError"]
    ELSE [flag |-> st[cs[1]].final, err |-> "none"]

\* _isAccepted: the first current state whose final flag is set answers true;
\* reading the flag of a current state that has no entry in _states is a
\* TypeError.
RECURSIVE isAccepted(_, _, _)
isAccepted(st, cs, i) ==
    IF i > Len(cs)
    THEN [flag |-> FALSE, err |-> "none"]
    ELSE IF cs[i] \notin DOMAIN st
    THEN [flag |-> FALSE, err |-> "TypeError"]
    ELSE IF st[cs[i]].final
    THEN [flag |-> TRUE, err |-> "none"]
    ELSE isAccepted(st, cs, i + 1)

\* (a changed _nullState: the current states are the null state alone)
nullStateIsNullId(cs) == cs = <<nullStateId>>

\* _nullState
nullState(cs) == Len(cs) = 0

----------------------------------------------------------------------------
(* Construction *)

\* A state of the constructor's states argument, in property order
StateArg(id, final, transitions) == [id |-> id, final |-> final, transitions |-> transitions]

RECURSIVE addStates(_, _, _)
addStates(m, statesArg, i) ==
    IF i > Len(statesArg)
    THEN m
    ELSE addStates(addState(m, statesArg[i].id, statesArg[i].final, statesArg[i].transitions),
                   statesArg, i + 1)

\* The constructor up to its call of _reset: the table and the start state id
construct(statesArg, startState) ==
    LET first == [states |-> [k \in {} |-> createBlankState],
                  start |-> IF startState = Undefined THEN nullStateId ELSE startState]
        withNull == addState(first, nullStateId, FALSE, NoTransitions)
        all == addStates(withNull, statesArg, 1)
    IN  [states |-> all.states,
         start |-> IF startState # Undefined THEN startState ELSE all.start]

\* A call of input or reset, its result and its log
CallLogged(op, sym, ret, flag, err, passes, took, log) ==
    [op |-> op, arg |-> NoArgument, sym |-> sym, ret |-> ret, flag |-> flag, err |-> err,
     passes |-> passes, took |-> took, log |-> log]

\* A call of a member that answers a question about the states arg
CallAbout(op, arg, sym, answer) ==
    [op |-> op, arg |-> arg, sym |-> sym, ret |-> << >>, flag |-> answer.flag,
     err |-> answer.err, passes |-> << >>, took |-> FALSE, log |-> << >>]

\* A call of a member that fires no event
Call(op, sym, ret, flag, err, passes, took) ==
    CallLogged(op, sym, ret, flag, err, passes, took, << >>)

\* The machine as the constructor leaves it; a constructor that throws
\* leaves no machine.
Constructed(statesArg, startState) ==
    LET m == construct(statesArg, startState)
        r == reset(m.states, NoMachineEvents, m.start)
    IN  /\ r.err = "none"
        /\ states = m.states
        /\ events = NoMachineEvents
        /\ startStateId = m.start
        /\ cState = r.cState
        /\ held = <<>>
        /\ heldIsCState = FALSE
        /\ lastCall = CallLogged("new", emptyInput, r.cState, FALSE, "none", r.passes,
                                 FALSE, r.log)
        /\ edits = 0
        /\ binds = 0

----------------------------------------------------------------------------
(* Machines and inputs of the model *)

StateIds == {"X", "Y", "Z"}

Symbols == {emptyInput, "a"}

T1(i, d) == [x \in {i} |-> d]
T2(i1, d1, i2, d2) == [x \in {i1, i2} |-> IF x = i1 THEN d1 ELSE d2]
Merge(f, g) == [x \in DOMAIN f \cup DOMAIN g |-> IF x \in DOMAIN f THEN f[x] ELSE g[x]]

\* The empty moves a state of the family can have: none, one to the next
\* state (X, Y, Z, X), or one to both other states
EmptyMoves(id) ==
    LET next == CASE id = "X" -> "Y" [] id = "Y" -> "Z" [] OTHER -> "X"
        others == CASE id = "X" -> <<"Z", "Y">> [] id = "Y" -> <<"X", "Z">> [] OTHER -> <<"Y", "X">>
    IN  {NoTransitions, T1(emptyInput, Single(next)), T1(emptyInput, Many(others))}

\* The moves on "a" a state of the family can have
Moves(id) ==
    CASE id = "X" -> {T1("a", Single("Z")), T1("a", Many(<<"Y", "Z">>))}
      [] id = "Y" -> {NoTransitions, T1("a", Single("X"))}
      [] OTHER -> {T1("a", Single(nullStateId)), T1("a", Many(<<"X", nullStateId, "X", "Z">>))}

\* The machines over X, Y, Z, in property order X, Y, Z
Family ==
    { << StateArg("X", ~yFinal, Merge(ex, ax)),
         StateArg("Y", yFinal, Merge(ey, ay)),
         StateArg("Z", ~yFinal, Merge(ez, az)) >> :
        yFinal \in BOOLEAN,
        ex \in EmptyMoves("X"), ey \in EmptyMoves("Y"), ez \in EmptyMoves("Z"),
        ax \in Moves("X"), ay \in Moves("Y"), az \in Moves("Z") }

\* Z --a--> X, X --""--> Y, Y --""--> X: a cycle of empty moves next to the start state
CycleStates ==
    << StateArg("Z", FALSE, T1("a", Single("X"))),
       StateArg("X", FALSE, T1(emptyInput, Single("Y"))),
       StateArg("Y", TRUE, T1(emptyInput, Single("X"))) >>

ChainStates ==
    << StateArg("Y", FALSE, T2("a", Single("X"), emptyInput, Single("Z"))),
       StateArg("X", TRUE, T1(emptyInput, Single("Y"))),
       StateArg("Z", FALSE, T1("a", Many(<<"Z", "X">>))) >>

\* Y has an empty move whose destination is null
NullMoveStates ==
    << StateArg("X", FALSE, T1("a", Many(<<"Z", "Y">>))),
       StateArg("Y", TRUE, T2("a", Single("Y"), emptyInput, Single(nullStateId))),
       StateArg("Z", TRUE, T1("a", Single(nullStateId))) >>

\* new Avtomat.StateMachine(states, startState): with X as the start state,
\* with no start state passed, and with no state at all
CtorArgs ==
    {<<f, "X">> : f \in Family}
        \cup { <<<< >>, Undefined>>,
               <<CycleStates, "Z">>,
               <<ChainStates, Undefined>>,
               <<NullMoveStates, "X">> }

\* The machines whose table the model changes
EditCtorArgs ==
    { <<<< >>, Undefined>>,
      <<CycleStates, "Z">>,
      <<ChainStates, "X">> }

\* The example of the README
ExampleStates ==
    << StateArg("A", FALSE, [x \in {"b", "c", "d", emptyInput} |->
            CASE x = "b" -> Single("B")
              [] x = "c" -> Many(<<"C", "D">>)
              [] x = "d" -> Single("A")
              [] OTHER -> Single("E")]),
       StateArg("B", FALSE, [x \in {"a", "c", "d"} |->
            CASE x = "a" -> Single("A")
              [] x = "c" -> Single("C")
              [] OTHER -> Single("E")]),
       StateArg("C", FALSE, T1(emptyInput, Single("A"))),
       StateArg("D", TRUE, [x \in {"a", "b", "c", "d", "e"} |->
            CASE x = "a" -> Single("D")
              [] x = "b" -> Single("E")
              [] x = "c" -> Many(<<"B", "D">>)
              [] x = "d" -> Single("D")
              [] OTHER -> Single("E")]),
       StateArg("E", FALSE, T2("d", Single("D"), "c", Single("C"))) >>

ExampleSymbols == {emptyInput, "a", "b", "c", "d", "e", "B"}

\* The machines handlers are bound to
EventCtorArgs == {<<ChainStates, "X">>, <<NullMoveStates, "X">>}

\* Arguments of bindStateEvent and bindMachineEvent: handlers f and g
\* return, the handler Failing throws; "bogus" is no event type.
StateBinds ==
    { <<"Z", "leaving", "f">>, <<"Z", "leave", "f">>, <<"Z", "leave", "g">>,
      <<"Y", "arriving", Failing>>, <<"Y", "arrive", "f">>, <<"Z", "bogus", "f">> }

MachineBinds ==
    { <<"changing", "f">>, <<"change", "f">>, <<"change", "g">>,
      <<"change", Failing>>, <<"bogus", "f">> }

\* Arguments of addTransition and addState
Destinations ==
    {Single("X"), Single(nullStateId), Many(<<"Y", nullStateId, "Y", "X">>)}

AddStateArgs ==
    {<<TRUE, T1(emptyInput, Single("X"))>>, <<FALSE, NoTransitions>>}

\* A machine of two states, Y added before X, whose table the caller changes
\* and asks about: the keys of the transitions are the symbol a and the
\* array index 0, W is no state, and UndefinedName is a destination.
PairStates ==
    << StateArg("Y", FALSE, T1("a", Many(<<"X", "Y">>))),
       StateArg("X", TRUE, NoTransitions) >>

TableCtorArgs ==
    { <<<< >>, Undefined>>, <<PairStates, Undefined>>, <<PairStates, "X">> }

TableAddStates ==
    { <<"X", FALSE, T1("a", Single("X"))>>, <<"0", FALSE, T1("0", Single("X"))>> }

TableDeleteStates == {"Y", "W"}

TableAddTransitions ==
    { <<"X", "0", Single("Y")>>, <<"X", "a", Single("W")>>,
      <<"X", "a", Single(UndefinedName)>> }

TableDeleteTransitions == { <<"X", "0">>, <<"Y", "a">>, <<"W", "a">> }

TableHasTransition ==
    { <<"X", "a">>, <<"X", emptyInput>>, <<"Y", "a">>, <<"X", "0">>, <<"W", "a">> }

TableHasTransitions ==
    { NoArgument, Single("X"), Single("Y"), Many(<<"Y">>), Many(<<"X", "Y">>) }

\* Arguments of a caller that calls every member
FrameAddStates == { <<"X", FALSE, T1("a", Single("X"))>>, <<"Z", TRUE, NoTransitions>> }

FrameAddTransitions == { <<"X", "a", Single("Y")>> }

FrameDeleteTransitions == { <<"Y", "a">> }

FrameHasTransition == { <<"Y", "a">> }

FrameHasTransitions == { NoArgument, Single("Y") }

\* Handlers that call state(), bound to events of the states and of the
\* machine of PairStates
ObserveStateBinds ==
    { <<"Y", "leaving", Observing>>, <<"Y", "leave", Observing>>,
      <<"X", "arriving", Observing>>, <<"Y", "arrive", Observing>> }

ObserveMachineBinds == { <<"change", Observing>> }

\* Handlers that call input(ReentrySymbol), bound to events of the states of
\* PairStates
ReentryStateBinds ==
    { <<"X", "leaving", Reentering>>, <<"X", "arrive", Reentering>>,
      <<"Y", "leave", "f">>, <<"Y", "arriving", "g">> }

----------------------------------------------------------------------------
(* The privileged members *)

\* The array the caller holds after a call that worked on the array _cState
\* referred to: it is the new _cState if the caller took the returned array,
\* and else the old array, with what the call left in it.
HeldAfter(take, newCState, oldLeft, stillSame) ==
    IF take
    THEN [held |-> newCState, same |-> TRUE]
    ELSE [held |-> IF heldIsCState THEN oldLeft ELSE held,
          same |-> heldIsCState /\ stillSame]

\* (a changed Input: a machine with no current state starts again from the
\* start state)
InputRestarts(sym, take) ==
    LET r == input(states, events, IF cState = << >> THEN <<startStateId>> ELSE cState, sym, 1, << >>)
    IN  \E out \in Outcomes(r) :
            LET h == HeldAfter(take /\ r.err = "none", out,
                               IF r.sameArray THEN out ELSE << >>, r.sameArray)
            IN  /\ cState' = out
                /\ held' = h.held
                /\ heldIsCState' = h.same
                /\ lastCall' = CallLogged("input", sym, IF r.err = "none" THEN out ELSE << >>,
                                          FALSE, r.err, r.passes, take /\ r.err = "none",
                                          r.log)
                /\ UNCHANGED <<states, events, startStateId, edits, binds>>

\* input(sym)
Input(sym, take) ==
    LET r == input(states, events, cState, sym, 1, << >>)
    IN  \E out \in Outcomes(r) :
            LET h == HeldAfter(take /\ r.err = "none", out,
                               IF r.sameArray THEN out ELSE << >>, r.sameArray)
            IN  /\ cState' = out
                /\ held' = h.held
                /\ heldIsCState' = h.same
                /\ lastCall' = CallLogged("input", sym, IF r.err = "none" THEN out ELSE << >>,
                                          FALSE, r.err, r.passes, take /\ r.err = "none",
                                          r.log)
                /\ UNCHANGED <<states, events, startStateId, edits, binds>>

\* (a changed Reset: _cState is not set to [_startStateId] before the empty input)
ResetFromCurrent(take) ==
    LET r == input(states, events, cState, emptyInput, 1, << >>)
    IN  \E out \in Outcomes(r) :
            LET h == HeldAfter(take /\ r.err = "none", out, cState, FALSE)
            IN  /\ cState' = out
                /\ held' = h.held
                /\ heldIsCState' = h.same
                /\ lastCall' = CallLogged("reset", emptyInput,
                                          IF r.err = "none" THEN out ELSE << >>,
                                          FALSE, r.err, r.passes, take /\ r.err = "none",
                                          r.log)
                /\ UNCHANGED <<states, events, startStateId, edits, binds>>

\* reset()
Reset(take) ==
    LET r == reset(states, events, startStateId)
    IN  \E out \in Outcomes(r) :
            LET h == HeldAfter(take /\ r.err = "none", out, cState, FALSE)
            IN  /\ cState' = out
                /\ held' = h.held
                /\ heldIsCState' = h.same
                /\ lastCall' = CallLogged("reset", emptyInput,
                                          IF r.err = "none" THEN out ELSE << >>,
                                          FALSE, r.err, r.passes, take /\ r.err = "none",
                                          r.log)
                /\ UNCHANGED <<states, events, startStateId, edits, binds>>

\* state()
State ==
    /\ held' = cState
    /\ heldIsCState' = TRUE
    /\ lastCall' = Call("state", emptyInput, cState, FALSE, "none", << >>, TRUE)
    /\ UNCHANGED <<states, events, startStateId, cState, edits, binds>>

\* accepted()
Accepted ==
    LET a == isAccepted(states, cState, 1)
    IN  /\ lastCall' = Call("accepted", emptyInput, << >>, a.flag, a.err, << >>, FALSE)
        /\ UNCHANGED <<states, events, startStateId, cState, held, heldIsCState, edits, binds>>

\* nullState()
NullState ==
    /\ lastCall' = Call("nullState", emptyInput, << >>, nullState(cState), "none", << >>, FALSE)
    /\ UNCHANGED <<states, events, startStateId, cState, held, heldIsCState, edits, binds>>

\* addState(id, isFinal, transitions)
AddState(id, isFinal, transitions) ==
    LET m == addState([states |-> states, start |-> startStateId], id, isFinal, transitions)
    IN  /\ edits < MaxEdits
        /\ states' = m.states
        /\ startStateId' = m.start
        /\ edits' = edits + 1
        /\ lastCall' = Call("addState", emptyInput, << >>, FALSE, "none", << >>, FALSE)
        /\ UNCHANGED <<events, cState, held, heldIsCState, binds>>

\* (a changed deleteState: the state deleted leaves the current states too)
DeleteStateAndLeaveIt(id) ==
    /\ edits < MaxEdits
    /\ states' = deleteState(states, id)
    /\ cState' = SelectSeq(cState, LAMBDA s : s # id)
    /\ edits' = edits + 1
    /\ lastCall' = Call("deleteState", emptyInput, << >>, FALSE, "none", << >>, FALSE)
    /\ UNCHANGED <<events, startStateId, held, heldIsCState, binds>>

\* deleteState(id)
DeleteState(id) ==
    /\ edits < MaxEdits
    /\ states' = deleteState(states, id)
    /\ edits' = edits + 1
    /\ lastCall' = Call("deleteState", emptyInput, << >>, FALSE, "none", << >>, FALSE)
    /\ UNCHANGED <<events, startStateId, cState, held, heldIsCState, binds>>

\* addTransition(idFrom, input, idTo): _states[idFrom] of a state that is
\* not there is undefined, and reading its transitions is a TypeError
AddTransition(idFrom, sym, idTo) ==
    /\ edits < MaxEdits
    /\ states' = IF idFrom \in DOMAIN states
                 THEN addTransition(states, idFrom, sym, idTo)
                 ELSE states
    /\ edits' = edits + 1
    /\ lastCall' = Call("addTransition", emptyInput, << >>, FALSE,
                        IF idFrom \in DOMAIN states THEN "none" ELSE "TypeError",
                        << >>, FALSE)
    /\ UNCHANGED <<events, startStateId, cState, held, heldIsCState, binds>>

\* deleteTransition(id, input)
DeleteTransition(id, sym) ==
    /\ edits < MaxEdits
    /\ states' = IF id \in DOMAIN states
                 THEN deleteTransition(states, id, sym)
                 ELSE states
    /\ edits' = edits + 1
    /\ lastCall' = Call("deleteTransition", emptyInput, << >>, FALSE,
                        IF id \in DOMAIN states THEN "none" ELSE "TypeError",
                        << >>, FALSE)
    /\ UNCHANGED <<events, startStateId, cState, held, heldIsCState, binds>>

\* The caller changes the array it holds: held.push(id) or held.pop()
CallerPush(id) ==
    /\ Len(held) < Cardinality(StateIds)
    /\ held' = Append(held, id)
    /\ cState' = IF heldIsCState THEN held' ELSE cState
    /\ lastCall' = Call("push", emptyInput, << >>, FALSE, "none", << >>, FALSE)
    /\ UNCHANGED <<states, events, startStateId, heldIsCState, edits, binds>>

CallerPop ==
    /\ Len(held) > 0
    /\ held' = SubSeq(held, 1, Len(held) - 1)
    /\ cState' = IF heldIsCState THEN held' ELSE cState
    /\ lastCall' = Call("pop", emptyInput, << >>, FALSE, "none", << >>, FALSE)
    /\ UNCHANGED <<states, events, startStateId, heldIsCState, edits, binds>>

\* hasTransition(id, input)
HasTransition(id, sym) ==
    /\ lastCall' = CallAbout("hasTransition", Single(id), sym, hasTransition(states, id, sym))
    /\ UNCHANGED <<states, events, startStateId, cState, held, heldIsCState, edits, binds>>

\* hasTransitions(), hasTransitions(id), hasTransitions([id, ...])
HasTransitions(arg) ==
    /\ lastCall' = CallAbout("hasTransitions", arg, emptyInput,
                             hasTransitions(states, cState, arg))
    /\ UNCHANGED <<states, events, startStateId, cState, held, heldIsCState, edits, binds>>

\* bindStateEvent(stateId, type, fn); the type is kept in lastCall.sym
BindStateEvent(stateId, type, fn) ==
    LET b == bindStateEvent(states, stateId, type, fn)
    IN  /\ binds < MaxBinds
        /\ states' = b.states
        /\ binds' = binds + 1
        /\ lastCall' = Call("bindStateEvent", type, << >>, FALSE, b.err, << >>, FALSE)
        /\ UNCHANGED <<events, startStateId, cState, held, heldIsCState, edits>>

\* bindMachineEvent(type, fn); the type is kept in lastCall.sym
BindMachineEvent(type, fn) ==
    LET b == bindMachineEvent(events, type, fn)
    IN  /\ binds < MaxBinds
        /\ events' = b.events
        /\ binds' = binds + 1
        /\ lastCall' = Call("bindMachineEvent", type, << >>, FALSE, b.err, << >>, FALSE)
        /\ UNCHANGED <<states, startStateId, cState, held, heldIsCState, edits>>

----------------------------------------------------------------------------
(* Specifications *)

\* A machine with a fixed table: input, reset, accepted, nullState; the
\* caller keeps no returned array.
Init == \E args \in CtorArgs : Constructed(args[1], args[2])

Query ==
    \/ Accepted
    \/ NullState

Next ==
    \/ \E sym \in Symbols : Input(sym, FALSE)
    \/ Reset(FALSE)
    \/ Query

Spec == Init /\ [][Next]_vars

\* The same members and the ones that change the table
InitEdit == \E args \in EditCtorArgs : Constructed(args[1], args[2])

Edit ==
    \/ \E id \in StateIds, a \in AddStateArgs : AddState(id, a[1], a[2])
    \/ \E id \in StateIds \cup {nullStateId} : DeleteState(id)
    \/ \E id \in StateIds, sym \in Symbols, d \in Destinations : AddTransition(id, sym, d)
    \/ \E id \in StateIds, sym \in Symbols : DeleteTransition(id, sym)

NextEdit ==
    \/ Next
    \/ Edit

SpecEdit == InitEdit /\ [][NextEdit]_vars

\* A caller that keeps returned arrays and changes them
NextCaller ==
    \/ \E sym \in Symbols, take \in BOOLEAN : Input(sym, take)
    \/ \E take \in BOOLEAN : Reset(take)
    \/ State
    \/ \E id \in StateIds : CallerPush(id)
    \/ CallerPop

SpecCaller == InitEdit /\ [][NextCaller]_vars

\* The README's example machine
InitExample == Constructed(ExampleStates, "A")

NextExample ==
    \/ \E sym \in ExampleSymbols, take \in BOOLEAN : Input(sym, take)
    \/ \E take \in BOOLEAN : Reset(take)
    \/ State
    \/ Query

SpecExample == InitExample /\ [][NextExample]_vars

\* A caller that binds handlers to events of the states and of the machine
InitEvents == \E args \in EventCtorArgs : Constructed(args[1], args[2])

Bind ==
    \/ \E b \in StateBinds : BindStateEvent(b[1], b[2], b[3])
    \/ \E b \in MachineBinds : BindMachineEvent(b[1], b[2])

NextEvents ==
    \/ \E sym \in Symbols : Input(sym, FALSE)
    \/ Reset(FALSE)
    \/ Bind

SpecEvents == InitEvents /\ [][NextEvents]_vars

\* A caller that changes the table, asks what transitions the states have,
\* and runs the machine
InitTable == \E args \in TableCtorArgs : Constructed(args[1], args[2])

EditTable ==
    \/ \E a \in TableAddStates : AddState(a[1], a[2], a[3])
    \/ \E id \in TableDeleteStates : DeleteState(id)
    \/ \E t \in TableAddTransitions : AddTransition(t[1], t[2], t[3])
    \/ \E t \in TableDeleteTransitions : DeleteTransition(t[1], t[2])

QueryTable ==
    \/ \E q \in TableHasTransition : HasTransition(q[1], q[2])
    \/ \E arg \in TableHasTransitions : HasTransitions(arg)

NextTable ==
    \/ \E sym \in Symbols : Input(sym, FALSE)
    \/ Reset(FALSE)
    \/ EditTable
    \/ QueryTable

SpecTable == InitTable /\ [][NextTable]_vars

\* A caller that calls every member
InitFrame == Constructed(PairStates, Undefined)

EditFrame ==
    \/ \E a \in FrameAddStates : AddState(a[1], a[2], a[3])
    \/ DeleteState("Y")
    \/ \E t \in FrameAddTransitions : AddTransition(t[1], t[2], t[3])
    \/ \E t \in FrameDeleteTransitions : DeleteTransition(t[1], t[2])

QueryFrame ==
    \/ State
    \/ Query
    \/ \E q \in FrameHasTransition : HasTransition(q[1], q[2])
    \/ \E arg \in FrameHasTransitions : HasTransitions(arg)

BindFrame ==
    \/ BindStateEvent("X", "arrive", "f")
    \/ BindMachineEvent("change", "f")

NextFrame ==
    \/ \E sym \in Symbols : Input(sym, FALSE)
    \/ Reset(FALSE)
    \/ EditFrame
    \/ QueryFrame
    \/ BindFrame

SpecFrame == InitFrame /\ [][NextFrame]_vars

\* A caller whose handlers call state()
InitObserve == Constructed(PairStates, Undefined)

BindObserve ==
    \/ \E b \in ObserveStateBinds : BindStateEvent(b[1], b[2], b[3])
    \/ \E b \in ObserveMachineBinds : BindMachineEvent(b[1], b[2])

NextObserve ==
    \/ \E sym \in Symbols : Input(sym, FALSE)
    \/ Reset(FALSE)
    \/ BindObserve

SpecObserve == InitObserve /\ [][NextObserve]_vars

\* A caller whose handlers call input
InitReentry == Constructed(PairStates, Undefined)

BindReentry == \E b \in ReentryStateBinds : BindStateEvent(b[1], b[2], b[3])

NextReentry ==
    \/ \E sym \in Symbols : Input(sym, FALSE)
    \/ Reset(FALSE)
    \/ BindReentry

SpecReentry == InitReentry /\ [][NextReentry]_vars

----------------------------------------------------------------------------
(* Properties *)

SeqToSet(s) == {s[i] : i \in 1..Len(s)}

NoDuplicates(s) == \A i, j \in 1..Len(s) : s[i] = s[j] => i = j

IsEngineCall(c) == c.op \in {"input", "reset"}

\* C1: whenever accepted() has just been called, it has returned, and it has
\* returned true exactly if at least one state of the active set has its
\* final flag set.
C1_AcceptedIffSomeFinal ==
    lastCall.op = "accepted" =>
        /\ lastCall.err = "none"
        /\ lastCall.flag <=> \E i \in 1..Len(cState) : states[cState[i]].final

\* accepted() has answered true for an active set of two states of which
\* only the second is final.
C1_Witness ==
    /\ lastCall.op = "accepted"
    /\ lastCall.flag
    /\ Len(cState) = 2
    /\ ~states[cState[1]].final

\* C2: once the active set is empty, a call of input(symbol), for any symbol,
\* returns the empty set, and no member but reset() leaves the active set
\* non-empty.
C2_EmptyStaysEmpty ==
    [][cState = << >> =>
          /\ lastCall'.op = "input" =>
                (lastCall'.err = "none" /\ lastCall'.ret = << >>)
          /\ lastCall'.op # "reset" => cState' = << >>]_vars

\* input() has been called on an empty active set: its one pass shifted
\* nothing.
C2_Witness ==
    /\ lastCall.op = "input"
    /\ lastCall.passes = << << >> >>
    /\ cState = << >>
    /\ DOMAIN states # {nullStateId}

\* C3: the active set holds no state id twice and does not hold the null
\* state id, after construction (of a machine with no states too) and after
\* any call of any member.
C3_NoDuplicateNoNull ==
    /\ NoDuplicates(cState)
    /\ nullStateId \notin SeqToSet(cState)

\* input() has gone through a destination array that names a state twice and
\* names null, and has kept two states of it.
C3_Witness ==
    /\ lastCall.op = "input"
    /\ lastCall.err = "none"
    /\ Len(lastCall.passes) > 1
    /\ lastCall.passes[2] = <<"Y", "X">>
    /\ \E id \in SeqToSet(lastCall.passes[1]) :
          /\ id \in DOMAIN states
          /\ lastCall.sym \in DOMAIN states[id].transitions
          /\ states[id].transitions[lastCall.sym] = Many(<<"Y", nullStateId, "Y", "X">>)

\* X --""--> Y and Y --""--> X
HasEmptyMoveCycle ==
    /\ {"X", "Y"} \subseteq DOMAIN states
    /\ emptyInput \in DOMAIN states["X"].transitions
    /\ emptyInput \in DOMAIN states["Y"].transitions
    /\ states["X"].transitions[emptyInput] = Single("Y")
    /\ states["Y"].transitions[emptyInput] = Single("X")

ReachesCycle(c) ==
    \E i \in 1..Len(c.passes) : SeqToSet(c.passes[i]) \cap {"X", "Y"} # {}

EmptyPasses(c) == IF c.sym = emptyInput THEN c.passes ELSE Tail(c.passes)

\* C5: in one call of input() or reset(), no state is shifted out of the
\* queue of a pass on the empty input more than once, and the call makes no
\* more passes than the machine has states.
C5_EachStateOncePerCall ==
    IsEngineCall(lastCall) =>
        LET ps == EmptyPasses(lastCall)
        IN  /\ \A i, j \in 1..Len(ps) :
                  i # j => SeqToSet(ps[i]) \cap SeqToSet(ps[j]) = {}
            /\ Len(lastCall.passes) <= Cardinality(DOMAIN states \ {nullStateId})

\* The explicit empty moves of a state: the non-null destinations stored
\* for the empty input.
EmptyMoveTargets(id) ==
    IF id \in DOMAIN states /\ emptyInput \in DOMAIN states[id].transitions
    THEN SeqToSet(states[id].transitions[emptyInput].ids) \ {nullStateId}
    ELSE {}

\* The glossary's epsilon-closure: the states reachable from those of S by
\* zero or more explicit empty moves.
RECURSIVE EpsilonClosure(_)
EpsilonClosure(S) ==
    LET more == S \cup UNION {EmptyMoveTargets(id) : id \in S}
    IN  IF more = S THEN S ELSE EpsilonClosure(more)

StartClosure == EpsilonClosure({startStateId} \ {nullStateId})

HasEmptyMove(id) == emptyInput \in DOMAIN states[id].transitions

\* C6 as stated: reset() returns exactly the epsilon-closure of the start
\* state, the start state included.
C6_ResetReturnsClosure ==
    (lastCall.op = "reset" /\ lastCall.err = "none") =>
        SeqToSet(lastCall.ret) = StartClosure

\* C6, amended: reset() returns exactly the states of the epsilon-closure of
\* the start state that have no explicit empty move; a state of the closure
\* that has one, the start state included, has been replaced by its
\* destinations.
C6_ResetReturnsClosureEnds ==
    (lastCall.op = "reset" /\ lastCall.err = "none") =>
        SeqToSet(lastCall.ret) = {id \in StartClosure : ~HasEmptyMove(id)}

\* reset() has returned one state of a closure of three: the start state
\* and a second state have an empty move and are not returned.
C6_Witness ==
    /\ lastCall.op = "reset"
    /\ lastCall.err = "none"
    /\ Cardinality(StartClosure) = 3
    /\ Len(lastCall.ret) = 1
    /\ startStateId \notin SeqToSet(lastCall.ret)

\* Section 4.2 of the specification, one step: the sources in order, each
\* giving the targets of its explicit transition on the symbol, or itself
\* if there is none and the symbol is empty, or the null state; the null
\* state and every repeated id dropped.
StepTargets(id, sym) ==
    IF sym \in DOMAIN states[id].transitions
    THEN states[id].transitions[sym].ids
    ELSE IF sym = emptyInput THEN <<id>> ELSE <<nullStateId>>

RECURSIVE AllTargets(_, _)
AllTargets(S, sym) ==
    IF S = << >> THEN << >> ELSE StepTargets(Head(S), sym) \o AllTargets(Tail(S), sym)

FirstOccurrences(s) ==
    SelectSeq([i \in 1..Len(s) |->
                  IF s[i] # nullStateId /\ \A j \in 1..(i - 1) : s[j] # s[i]
                  THEN s[i] ELSE nullStateId],
              LAMBDA id : id # nullStateId)

StepOf(S, sym) == FirstOccurrences(AllTargets(S, sym))

\* Section 4.2, step 3: the step on the empty symbol, repeated while the set
\* is not empty and one of its states has an explicit empty transition.
RECURSIVE EmptyStepsOf(_, _)
EmptyStepsOf(S, left) ==
    LET new == StepOf(S, emptyInput)
    IN  IF left = 0 \/ new = << >> \/ \A i \in 1..Len(new) : ~HasEmptyMove(new[i])
        THEN new
        ELSE EmptyStepsOf(new, left - 1)

\* C7: reset() returns, whatever calls came before it, the ordered set that
\* the step of section 4.2 on the empty symbol gives for {start state}, and
\* so does construction.
C7_ResetIgnoresHistory ==
    (lastCall.op \in {"new", "reset"} /\ lastCall.err = "none") =>
        /\ cState = lastCall.ret
        /\ lastCall.ret = EmptyStepsOf(<<startStateId>>, MaxStack)

\* reset() has made two passes from [start state] and has returned another
\* state than the start state.
C7_Witness ==
    /\ lastCall.op = "reset"
    /\ lastCall.err = "none"
    /\ Len(lastCall.passes) = 2
    /\ lastCall.passes[1] = <<startStateId>>
    /\ lastCall.ret # <<startStateId>>
    /\ lastCall.ret # << >>

\* C8: when input() or reset() has just returned and the table is as it was,
\* input("") returns the same states in the same order.
C8_EmptyInputIdempotent ==
    [][(/\ lastCall.op \in {"new", "input", "reset"}
        /\ lastCall.err = "none"
        /\ lastCall'.op = "input"
        /\ lastCall'.sym = emptyInput
        /\ states' = states)
       => (/\ lastCall'.err = "none"
           /\ lastCall'.ret = cState
           /\ cState' = cState)]_vars

\* input("") has made one pass over two states and has returned them.
C8_Witness ==
    /\ lastCall.op = "input"
    /\ lastCall.sym = emptyInput
    /\ lastCall.err = "none"
    /\ Len(cState) = 2
    /\ lastCall.passes = <<cState>>

\* C9: an array that input(), reset() or state() returned is a snapshot: a
\* later call of input() or reset() leaves the array the caller kept as it
\* was, and a caller changing its array leaves the active set as it was.
C9_ReturnedValueIsSnapshot ==
    [][/\ (IsEngineCall(lastCall') /\ ~lastCall'.took) => held' = held
       /\ lastCall'.op \in {"push", "pop"} => cState' = cState]_vars

\* C10: on the README's machine the active set after construction and
\* after reset() is [E]; input("d") on [E] returns [D], and accepted() is
\* then true; input("B") on [D] returns [], and nullState() is then true.
C10_ExampleRun ==
    /\ cState = <<"E">>
    /\ [][/\ lastCall'.op = "reset" =>
                (lastCall'.ret = <<"E">> /\ cState' = <<"E">>)
          /\ (cState = <<"E">> /\ lastCall'.op = "input" /\ lastCall'.sym = "d") =>
                /\ lastCall'.ret = <<"D">>
                /\ cState' = <<"D">>
                /\ isAccepted(states', cState', 1) = [flag |-> TRUE, err |-> "none"]
          /\ (cState = <<"D">> /\ lastCall'.op = "input" /\ lastCall'.sym = "B") =>
                /\ lastCall'.ret = << >>
                /\ cState' = << >>
                /\ nullState(cState')]_vars

\* input("B") has been called on [D] and has left the active set empty.
C10_Witness ==
    /\ lastCall.op = "input"
    /\ lastCall.sym = "B"
    /\ lastCall.passes = << <<"D">> >>
    /\ cState = << >>

\* C11: on the README's machine input("d") on the active set [B, D] returns
\* D and E in the order D, E, and accepted() is then true.
C11_ExampleInputD ==
    [][(cState = <<"B", "D">> /\ lastCall'.op = "input" /\ lastCall'.sym = "d") =>
            /\ lastCall'.ret = <<"D", "E">>
            /\ cState' = <<"D", "E">>
            /\ isAccepted(states', cState', 1) = [flag |-> TRUE, err |-> "none"]]_vars

\* C12: on the README's machine input("c") on the active set [D] returns
\* [B, D], the destinations of D on "c" in the order the transition lists
\* them.
C12_ExampleInputC ==
    [][(cState = <<"D">> /\ lastCall'.op = "input" /\ lastCall'.sym = "c") =>
            /\ lastCall'.err = "none"
            /\ lastCall'.ret = <<"B", "D">>
            /\ cState' = <<"B", "D">>]_vars

\* input("c") has been called on [D] and has made one pass.
C12_Witness ==
    /\ lastCall.op = "input"
    /\ lastCall.sym = "c"
    /\ lastCall.passes = << <<"D">> >>
    /\ Len(cState) = 2

\* C13: on the README's machine input("e") on an active set of D and E
\* returns [E], and accepted() is then false; input("c") right after reset()
\* returns [E], by the passes [E], [C], [A] of the one call.
C13_ExampleChain ==
    [][/\ (SeqToSet(cState) = {"D", "E"} /\ lastCall'.op = "input" /\ lastCall'.sym = "e") =>
            /\ lastCall'.ret = <<"E">>
            /\ cState' = <<"E">>
            /\ isAccepted(states', cState', 1) = [flag |-> FALSE, err |-> "none"]
       /\ (lastCall.op = "reset" /\ lastCall'.op = "input" /\ lastCall'.sym = "c") =>
            /\ lastCall'.ret = <<"E">>
            /\ cState' = <<"E">>
            /\ lastCall'.passes = << <<"E">>, <<"C">>, <<"A">> >>]_vars

\* input("c") has gone from [E] over [C] and [A] back to [E] in one call.
C13_Witness ==
    /\ lastCall.op = "input"
    /\ lastCall.sym = "c"
    /\ Len(lastCall.passes) = 3
    /\ lastCall.passes[2] = <<"C">>
    /\ cState = <<"E">>

\* The log of a call without the calls of handlers: the events fired, the
\* shifts, the pushes and the assignments
Firing(log) == SelectSeq(log, LAMBDA e : e.kind \notin {"invoke", "see"})

PositionsOf(L, entry) == {i \in 1..Len(L) : L[i] = entry}

\* The n-th smallest member of a set of numbers
Nth(S, n) == CHOOSE i \in S : Cardinality({j \in S : j < i}) = n - 1

\* The ids of the entries of one kind among L[a..b], in order
IdsOfKind(L, a, b, kind) ==
    LET seg == SelectSeq(SubSeq(L, a, b), LAMBDA e : e.kind = kind)
    IN  [i \in 1..Len(seg) |-> seg[i].id]

\* The event types of the handlers of the machine that were called, in order
MachineInvocations(log) ==
    LET seg == SelectSeq(log, LAMBDA e : e.kind = "invoke" /\ e.id = Machine)
    IN  [i \in 1..Len(seg) |-> seg[i].type]

\* C14: a call of input() or reset() that returns after n passes has fired
\* changing and change n times each, as n consecutive pairs: each pass starts
\* with its changing, before any state is shifted, and ends with its change,
\* right after newStates has become _cState; the handlers of the machine are
\* called pair by pair.
C14_ChangingChangePairs ==
    (IsEngineCall(lastCall) /\ lastCall.err = "none") =>
        LET L == Firing(lastCall.log)
            n == Len(lastCall.passes)
            starts == PositionsOf(L, Fired("changing", Machine))
            ends == PositionsOf(L, Fired("change", Machine))
            perPass == Len(events.changing) + Len(events.change)
            called == MachineInvocations(lastCall.log)
        IN  /\ Cardinality(starts) = n
            /\ Cardinality(ends) = n
            /\ Cardinality(PositionsOf(L, Assigned)) = n
            /\ \A k \in 1..n :
                    LET a == Nth(starts, k)
                        b == Nth(ends, k)
                    IN  /\ a = IF k = 1 THEN 1 ELSE Nth(ends, k - 1) + 1
                        /\ a < b
                        /\ k = n => b = Len(L)
                        /\ L[b - 1] = Assigned
                        /\ IdsOfKind(L, a, b, "shift") = lastCall.passes[k]
            /\ Len(called) = n * perPass
            /\ \A i \in 1..Len(called) :
                    called[i] = IF ((i - 1) % perPass) + 1 <= Len(events.changing)
                                THEN "changing"
                                ELSE "change"

\* A call has returned after three passes, with a handler bound to changing
\* and one bound to change.
C14_Witness ==
    /\ IsEngineCall(lastCall)
    /\ lastCall.err = "none"
    /\ Len(lastCall.passes) = 3
    /\ Len(events.changing) = 1
    /\ Len(events.change) = 1

ShiftPositions(L) == {i \in 1..Len(L) : L[i].kind = "shift"}

\* Where the part of the log that belongs to the state shifted at i ends:
\* at the next shift, or at the assignment that ends the pass
SegmentEnd(L, i) ==
    CHOOSE j \in (i + 1)..Len(L) :
        /\ L[j].kind \in {"shift", "assign"}
        /\ \A m \in (i + 1)..(j - 1) : L[m].kind \notin {"shift", "assign"}

\* The pass position i of the log lies in, and where that pass starts
PassOf(L, i) == Cardinality({j \in 1..i : L[j] = Fired("changing", Machine)})

PassStart(L, i) ==
    CHOOSE j \in 1..i :
        /\ L[j] = Fired("changing", Machine)
        /\ \A m \in (j + 1)..i : L[m] # Fired("changing", Machine)

\* The input of pass k of a call: the symbol given, and "" from then on
SymbolOf(c, k) == IF k = 1 THEN c.sym ELSE emptyInput

CountOf(L, a, b, entry) == Cardinality({j \in a..b : L[j] = entry})

\* The destinations of the state shifted at i that are not the null state
\* and were not pushed earlier in the pass
NewDestsAt(L, i) ==
    LET pushedBefore == {L[j].id : j \in {m \in PassStart(L, i)..i : L[m].kind = "push"}}
        dests == destStates(states, L[i].id, SymbolOf(lastCall, PassOf(L, i)))
    IN  SeqToSet(dests) \ (pushedBefore \cup {nullStateId})

LeavesAt(L, i) == CountOf(L, i, SegmentEnd(L, i), Fired("leave", L[i].id))

SourceAt(L, i) ==
    L[CHOOSE j \in 1..i : L[j].kind = "shift" /\ \A m \in (j + 1)..i : L[m].kind # "shift"].id

IsFired(entry, type) == entry.kind = "fire" /\ entry.type = type

\* C16: in a call of input() or reset() that returns, every push of a
\* destination d found from the state s is preceded by leave of s and then
\* arriving of d, and followed by arrive of d, with nothing in between; no
\* leave, arriving or arrive is fired anywhere else, and leaving of a state
\* is fired right after its shift, so that everything fired for a state
\* shifted earlier comes before leaving of a state shifted later.
C16_LeaveArrivingPushArrive ==
    (IsEngineCall(lastCall) /\ lastCall.err = "none") =>
        LET L == Firing(lastCall.log)
        IN  \A i \in 1..Len(L) :
                /\ L[i].kind = "push" =>
                        /\ i > 2
                        /\ i < Len(L)
                        /\ L[i - 2] = Fired("leave", SourceAt(L, i))
                        /\ L[i - 1] = Fired("arriving", L[i].id)
                        /\ L[i + 1] = Fired("arrive", L[i].id)
                /\ IsFired(L[i], "leave") =>
                        /\ i + 2 <= Len(L)
                        /\ L[i + 2].kind = "push"
                        /\ L[i].id = SourceAt(L, i)
                /\ IsFired(L[i], "arriving") =>
                        /\ i + 1 <= Len(L)
                        /\ L[i + 1] = Pushed(L[i].id)
                /\ IsFired(L[i], "arrive") =>
                        /\ i > 1
                        /\ L[i - 1] = Pushed(L[i].id)
                /\ IsFired(L[i], "leaving") =>
                        /\ i > 1
                        /\ L[i - 1] = Shifted(L[i].id)

\* In one pass a state had two destinations pushed and a state shifted
\* after it had one pushed.
C16_Witness ==
    /\ IsEngineCall(lastCall)
    /\ lastCall.err = "none"
    /\ LET L == Firing(lastCall.log)
       IN  \E i, j \in ShiftPositions(L) :
               /\ i < j
               /\ PassOf(L, i) = PassOf(L, j)
               /\ LeavesAt(L, i) = 2
               /\ LeavesAt(L, j) = 1

\* C17: in a call of input() or reset() that returns, every state that is
\* in the active set before a pass and not in it after the pass has had its
\* leave fired at least once in that pass.
C17_LeaveWhenNoLongerCurrent ==
    (IsEngineCall(lastCall) /\ lastCall.err = "none") =>
        LET L == Firing(lastCall.log)
            n == Len(lastCall.passes)
        IN  \A k \in 1..n :
                LET a == Nth(PositionsOf(L, Fired("changing", Machine)), k)
                    b == Nth(PositionsOf(L, Fired("change", Machine)), k)
                    after == IF k < n
                             THEN SeqToSet(lastCall.passes[k + 1])
                             ELSE SeqToSet(lastCall.ret)
                IN  \A s \in SeqToSet(lastCall.passes[k]) \ after :
                        CountOf(L, a, b, Fired("leave", s)) >= 1

\* The handlers bound to an event of a state or of the machine
HandlersOf(type, id) == IF id = Machine THEN events[type] ELSE states[id].events[type]

\* The number of calls of handlers that follow position i of the log directly
InvokedAfter(log, i) ==
    LET runs == {k \in 0..(Len(log) - i) : \A m \in 1..k : log[i + m].kind = "invoke"}
    IN  CHOOSE k \in runs : \A other \in runs : other <= k

AllHandlerLists ==
    [id \in DOMAIN states |-> states[id].events] @@ (Machine :> events)

\* C18: bindStateEvent and bindMachineEvent put the handler at the end of
\* the list of its event and leave the rest of the list as it was; and in a
\* call of input() or reset() every event fired is followed by the calls of
\* the handlers bound to it, in the order of the list, each once: fewer only
\* if the last one called threw and ended the call.
C18_HandlersInBindingOrder ==
    /\ [](IsEngineCall(lastCall) =>
            \A i \in 1..Len(lastCall.log) :
                lastCall.log[i].kind = "fire" =>
                    LET type == lastCall.log[i].type
                        id == lastCall.log[i].id
                        bound == HandlersOf(type, id)
                        run == InvokedAfter(lastCall.log, i)
                    IN  /\ run <= Len(bound)
                        /\ \A m \in 1..run : lastCall.log[i + m] = Invoked(type, id, bound[m])
                        /\ run < Len(bound) =>
                                /\ run >= 1
                                /\ bound[run] = Failing
                                /\ i + run = Len(lastCall.log))
    /\ [][(lastCall'.op \in {"bindStateEvent", "bindMachineEvent"} /\ lastCall'.err = "none") =>
            \E id \in DOMAIN AllHandlerLists, type \in StateEventTypes \cup MachineEventTypes :
                /\ type \in DOMAIN AllHandlerLists[id]
                /\ Len(AllHandlerLists[id][type]') = Len(AllHandlerLists[id][type]) + 1
                /\ SubSeq(AllHandlerLists[id][type]', 1, Len(AllHandlerLists[id][type]))
                        = AllHandlerLists[id][type]
                /\ \A id2 \in DOMAIN AllHandlerLists :
                        \A type2 \in DOMAIN AllHandlerLists[id2] :
                            <<id2, type2>> # <<id, type>> =>
                                AllHandlerLists[id2][type2]' = AllHandlerLists[id2][type2]]_vars

\* An event with two handlers bound to it has been fired in a call that
\* returned: g was bound before f and was called before f.
C18_Witness ==
    /\ IsEngineCall(lastCall)
    /\ lastCall.err = "none"
    /\ \E i \in 1..Len(lastCall.log) :
           /\ lastCall.log[i].kind = "fire"
           /\ HandlersOf(lastCall.log[i].type, lastCall.log[i].id) = <<"g", "f">>
           /\ InvokedAfter(lastCall.log, i) = 2
           /\ lastCall.log[i + 1].fn = "g"

\* C19: in a call of input() or reset() a handler that throws is the last
\* thing that happens in the call: no handler is called after it, and the
\* call ends with the handler's failure, returning nothing; a call in which
\* no handler threw does not end that way.
C19_HandlerFailurePropagates ==
    IsEngineCall(lastCall) =>
        /\ \A i \in 1..Len(lastCall.log) :
                (lastCall.log[i].kind = "invoke" /\ lastCall.log[i].fn = Failing) =>
                    /\ i = Len(lastCall.log)
                    /\ lastCall.err = "HandlerError"
                    /\ lastCall.ret = << >>
                    /\ ~lastCall.took
        /\ lastCall.err = "HandlerError" =>
                /\ Len(lastCall.log) > 0
                /\ lastCall.log[Len(lastCall.log)].kind = "invoke"
                /\ lastCall.log[Len(lastCall.log)].fn = Failing

\* A handler bound to arriving of Y threw in a call while a handler was
\* bound to an event of the machine that the call would have fired later.
C19_Witness ==
    /\ IsEngineCall(lastCall)
    /\ lastCall.err = "HandlerError"
    /\ lastCall.log[Len(lastCall.log)] = Invoked("arriving", "Y", Failing)
    /\ Len(events.change) = 1

\* C20: bindStateEvent with a type that is none of arriving, arrive,
\* leaving, leave, and bindMachineEvent with a type that is neither changing
\* nor change, end with an error that names the unknown event type, and
\* leave every list of handlers as it was.
C20_UnknownEventTypeRejected ==
    [][(\/ lastCall'.op = "bindStateEvent" /\ lastCall'.sym \notin StateEventTypes
        \/ lastCall'.op = "bindMachineEvent" /\ lastCall'.sym \notin MachineEventTypes) =>
            /\ lastCall'.err = "UnknownEventType"
            /\ states' = states
            /\ events' = events]_vars
\* The table and the start state id as _addState takes them
TableNow == [states |-> states, start |-> startStateId]

\* C21: addState with an id that names a state of the table changes nothing:
\* for every state of the table and every isFinal and transitions argument
\* the table and the start state id come out as they went in, and a call of
\* addState that leaves the set of ids as it was leaves the table, the start
\* state id, the handlers of the machine and the current states as they were.
C21_AddStateExistingIsNoOp ==
    /\ [](\A id \in DOMAIN states, a \in TableAddStates :
            addState(TableNow, id, a[2], a[3]) = TableNow)
    /\ [][lastCall'.op = "addState" /\ DOMAIN states' = DOMAIN states
            => /\ states' = states
               /\ startStateId' = startStateId
               /\ cState' = cState
               /\ events' = events]_vars

\* addState("X", false, {a: "X"}) was called on the machine that has X:
\* X is still final and without transitions
C21_Witness ==
    /\ lastCall.op = "addState"
    /\ DOMAIN states = {nullStateId, "X", "Y"}
    /\ states["X"].final
    /\ states["X"].transitions = NoTransitions
\* The start state id the constructor is to leave: the one passed, and with
\* none passed the id of the first state of the states argument
StartStateOf(statesArg, startState) ==
    IF startState # Undefined THEN startState
    ELSE IF Len(statesArg) > 0 THEN statesArg[1].id
    ELSE nullStateId

\* C22: the constructor leaves as the start state id the id passed to it,
\* and with none passed the id of the first state it added; addState on a
\* machine that has no start state yet makes the state it adds the start
\* state, and addState on a machine that has a start state, passed or not,
\* leaves the start state id as it was.
C22_FirstAddedStateIsStart ==
    /\ [](\A args \in TableCtorArgs \cup CtorArgs :
            construct(args[1], args[2]).start = StartStateOf(args[1], args[2]))
    /\ [][lastCall'.op = "addState"
            => IF startStateId = nullStateId /\ DOMAIN states' # DOMAIN states
               THEN {startStateId'} = DOMAIN states' \ DOMAIN states
               ELSE startStateId' = startStateId]_vars

\* addState("X", ...) on the machine made without states: X is the start state
C22_Witness ==
    /\ lastCall.op = "addState"
    /\ DOMAIN states = {nullStateId, "X"}
    /\ startStateId = "X"
\* C23: a call of deleteState or deleteTransition that deletes nothing,
\* because the state or the mapping it names is not there, returns without
\* an error and leaves the table as it was.
C23_DeleteMissingIsNoOp ==
    [][lastCall'.op \in {"deleteState", "deleteTransition"} /\ states' = states
            => lastCall'.err = "none"]_vars
\* C24: no call of input or reset dies after the leave of a source state
\* because the destination it goes to names no state of the table (a
\* destination that names no state is refused when the machine is made or
\* the transition is added).
C24_NoUnresolvedDestination ==
    IsEngineCall(lastCall) /\ lastCall.err = "TypeError" /\ Len(lastCall.log) > 0
        => lastCall.log[Len(lastCall.log)].type # "leave"
\* C25: hasTransitions(id) with the id of a state of the table returns
\* true if the state has a mapping for at least one symbol, whatever the
\* symbol, and false if it has none.
C25_HasTransitionsOfState ==
    /\ lastCall.op = "hasTransitions"
    /\ ~lastCall.arg.isArray
    /\ Len(lastCall.arg.ids) = 1
    /\ lastCall.arg.ids[1] \in DOMAIN states
    => /\ lastCall.err = "none"
       /\ lastCall.flag <=> DOMAIN states[lastCall.arg.ids[1]].transitions # {}
\* The states hasTransitions is asked about: the current states with no
\* argument, and else the states of the array passed
AskedAbout(c) == IF c.arg = NoArgument THEN cState ELSE c.arg.ids

\* C26: hasTransitions() with no argument and hasTransitions(ids) with an
\* array of ids of states of the table return, without an error, true if at
\* least one of the states asked about (the current states, the states of
\* the array) has a mapping, and false if none has.
C26_HasTransitionsOfStates ==
    /\ lastCall.op = "hasTransitions"
    /\ lastCall.arg = NoArgument \/ lastCall.arg.isArray
    /\ SeqToSet(AskedAbout(lastCall)) \subseteq DOMAIN states
    => /\ lastCall.err = "none"
       /\ lastCall.flag <=> \E id \in SeqToSet(AskedAbout(lastCall)) :
                                DOMAIN states[id].transitions # {}
\* C27: hasTransition(id, symbol) with the id of a state of the table
\* returns true if the state has a mapping for the symbol, and returns true
\* if the symbol is the empty one.
C27_HasTransitionOfMapping ==
    /\ lastCall.op = "hasTransition"
    /\ lastCall.arg.ids[1] \in DOMAIN states
    /\ \/ lastCall.sym \in DOMAIN states[lastCall.arg.ids[1]].transitions
       \/ lastCall.sym = emptyInput
    => lastCall.err = "none" /\ lastCall.flag
\* C28: nullState() returns true if there is no current state and false if
\* there is one, whatever calls came before it.
C28_NullStateIffNoCurrentState ==
    lastCall.op = "nullState"
        => lastCall.err = "none" /\ (lastCall.flag <=> SeqToSet(cState) = {})

\* nullState() answered true on a machine that has states and has lost its
\* current states
C28_Witness ==
    /\ lastCall.op = "nullState"
    /\ lastCall.flag
    /\ cState = << >>
    /\ startStateId = "X"
\* The members that are neither input nor reset
OtherMembers ==
    {"state", "accepted", "nullState", "hasTransition", "hasTransitions",
     "addState", "deleteState", "addTransition", "deleteTransition",
     "bindStateEvent", "bindMachineEvent"}

\* C29: a call of a member that is neither input nor reset leaves the
\* current states as they were: if the current states differ after a call,
\* the call was input or reset.
C29_OnlyInputAndResetMove ==
    [][/\ lastCall'.op \in OtherMembers => cState' = cState
       /\ cState' # cState => lastCall'.op \in {"input", "reset"}]_vars

\* deleteState("Y") while Y is the current state: Y is gone from the table
\* and is still the current state
C29_Witness ==
    /\ lastCall.op = "deleteState"
    /\ "Y" \notin DOMAIN states
    /\ cState = <<"Y">>
\* C30: every pass of a call of input or reset that ran to its end turned
\* the states it started from, S, on its symbol a into the reference result:
\* the destinations of the states of S in the order of S (the destinations
\* of the mapping for a, in their order; the state itself if it has no
\* mapping and a is the empty symbol; and else nothing), without the null
\* state and with each id at its first occurrence only.  The result of a
\* pass is what the next pass started from, and for the last pass of a call
\* that returned it is the array returned.
C30_StepIsReferenceStep ==
    IsEngineCall(lastCall) /\ SeqToSet(cState) \subseteq DOMAIN states
        => /\ \A k \in 1..(Len(lastCall.passes) - 1) :
                lastCall.passes[k + 1] =
                    StepOf(lastCall.passes[k], SymbolOf(lastCall, k))
           /\ lastCall.err = "none"
                => lastCall.ret =
                    StepOf(lastCall.passes[Len(lastCall.passes)],
                                  SymbolOf(lastCall, Len(lastCall.passes)))
\* C31: when a call of input or reset has returned, no current state has a
\* mapping for the empty symbol (or there is no current state): a state
\* that has one was the source of a further pass on the empty symbol, which
\* put the destinations of the mapping in its place.
C31_NoEmptyMoveLeftOnReturn ==
    IsEngineCall(lastCall) /\ lastCall.err = "none"
        => /\ cState = lastCall.ret
           /\ \A i \in 1..Len(cState) :
                emptyInput \notin DOMAIN states[cState[i]].transitions

\* input(a) has returned current states after a second pass, and one of the
\* sources of that pass had a mapping for the empty symbol
C31_Witness ==
    /\ lastCall.op = "input"
    /\ lastCall.sym = "a"
    /\ lastCall.err = "none"
    /\ Len(lastCall.passes) >= 2
    /\ Len(cState) > 0
    /\ \E i \in 1..Len(lastCall.passes[2]) :
            emptyInput \in DOMAIN states[lastCall.passes[2][i]].transitions
\* Where pass k of the log begins and ends: from its changing to the entry
\* before the changing of the next pass
PassBegin(L, k) == Nth(PositionsOf(L, Fired("changing", Machine)), k)

PassEnd(L, k) ==
    IF k < Cardinality(PositionsOf(L, Fired("changing", Machine)))
    THEN PassBegin(L, k + 1) - 1
    ELSE Len(L)

\* C32: in every pass of a call of input or reset that got as far as
\* _cState = newStates, arriving and arrive were each fired once for every
\* state of the set the pass made, a state that was current before and keeps
\* itself on the empty symbol included, and were fired for no other state;
\* the set the pass made is what the next pass started from, and what the
\* call returned if it was the last pass.
C32_ArrivingArriveOncePerMember ==
    IsEngineCall(lastCall) =>
        LET L == Firing(lastCall.log)
            n == Cardinality(PositionsOf(L, Fired("changing", Machine)))
        IN  \A k \in 1..n :
                LET a == PassBegin(L, k)
                    b == PassEnd(L, k)
                    made == IdsOfKind(L, a, b, "push")
                IN  CountOf(L, a, b, Assigned) = 1 =>
                        /\ k < Len(lastCall.passes) => made = lastCall.passes[k + 1]
                        /\ k = Len(lastCall.passes) /\ lastCall.err = "none"
                                => made = lastCall.ret
                        /\ \A id \in DOMAIN states :
                                LET times == IF id \in SeqToSet(made) THEN 1 ELSE 0
                                IN  /\ CountOf(L, a, b, Fired("arriving", id)) = times
                                    /\ CountOf(L, a, b, Fired("arrive", id)) = times

\* input("") has returned the two states that were current before it, both
\* kept by default, after one pass
C32_Witness ==
    /\ lastCall.op = "input"
    /\ lastCall.sym = emptyInput
    /\ lastCall.err = "none"
    /\ Len(lastCall.passes) = 1
    /\ Len(lastCall.ret) = 2
    /\ lastCall.passes[1] = lastCall.ret
    /\ CountOf(Firing(lastCall.log), 1, Len(Firing(lastCall.log)),
               Fired("arrive", lastCall.ret[2])) = 1
\* C33: hasTransition(id, symbol) with the id of a state of the table and
\* a symbol that is not the empty one returns false if the state has no
\* mapping for the symbol.
C33_HasTransitionOfNoMapping ==
    /\ lastCall.op = "hasTransition"
    /\ lastCall.arg.ids[1] \in DOMAIN states
    /\ lastCall.sym # emptyInput
    /\ lastCall.sym \notin DOMAIN states[lastCall.arg.ids[1]].transitions
    => lastCall.err = "none" /\ ~lastCall.flag
\* C34: every current state is a state of the table, whatever members were
\* called, deleteState among them, and accepted() therefore never fails
\* looking a current state up.
C34_CurrentStatesAreInTable ==
    /\ SeqToSet(cState) \subseteq DOMAIN states
    /\ lastCall.op = "accepted" => lastCall.err = "none"
\* C35: a call of input or reset in which a handler fails leaves the
\* current states as they were before the call, the same states in the same
\* order.
C35_HandlerFailureLeavesCurrentStates ==
    [][IsEngineCall(lastCall') /\ lastCall'.err = "HandlerError" => cState' = cState]_vars
\* No state of the table reaches itself through one or more explicit empty
\* moves
NoEmptyMoveCycle ==
    \A id \in DOMAIN states : id \notin EpsilonClosure(EmptyMoveTargets(id))

\* C36: on a table whose explicit empty moves form no cycle, a call of
\* input or reset does not run out of stack: it ends after at most one pass
\* on its symbol and as many passes on the empty symbol as the table has
\* states.
C36_TerminatesWithoutEmptyMoveCycle ==
    NoEmptyMoveCycle /\ IsEngineCall(lastCall)
        => /\ lastCall.err # "RangeError"
           /\ Len(lastCall.passes) <= 1 + Cardinality(DOMAIN states \ {nullStateId})
\* Where in a log the handler Observing was called
ObservedAt(L) == {i \in 1..Len(L) : L[i].kind = "invoke" /\ L[i].fn = Observing}

\* The array state() returned to the handler called at position i
ViewAt(L, i) ==
    LET runs == {n \in 0..(Len(L) - i) : \A m \in 1..n : L[i + m].kind = "see"}
        last == CHOOSE n \in runs : \A other \in runs : other <= n
    IN  [m \in 1..last |-> L[i + m].id]

\* The current states before pass k of the call c that began with the
\* current states before: for the first pass those (for reset the start
\* state), for a later pass what the pass before it pushed
BeforePass(c, before, start, k) ==
    IF k = 1
    THEN IF c.op = "reset" THEN <<start>> ELSE before
    ELSE IdsOfKind(c.log, PassBegin(c.log, k - 1), PassEnd(c.log, k - 1), "push")

\* C37: in a call of input or reset, state() called by a handler of
\* leaving, leave, arriving or arrive returns the current states as they
\* were before the pass the handler is called in, all of them in their
\* order, and state() called by a handler of change returns the states the
\* pass has pushed.
C37_HandlersSeeSetBeforePass ==
    [][IsEngineCall(lastCall') =>
        LET L == lastCall'.log
        IN  \A i \in ObservedAt(L) :
                LET k == PassOf(L, i)
                IN  /\ L[i].type \in StateEventTypes
                        => ViewAt(L, i) = BeforePass(lastCall', cState, startStateId, k)
                    /\ L[i].type = "change"
                        => ViewAt(L, i) = IdsOfKind(L, PassBegin(L, k), PassEnd(L, k), "push")
      ]_vars
\* The table without the handlers that call input
WithoutReentry(st) ==
    [id \in DOMAIN st |->
        [st[id] EXCEPT !.events =
            [type \in DOMAIN @ |-> SelectSeq(@[type], LAMBDA fn : fn # Reentering)]]]

\* The handler Reentering was called in the call c
HasReentered(c) ==
    \E i \in 1..Len(c.log) : c.log[i].kind = "invoke" /\ c.log[i].fn = Reentering

\* C38: a call of input(a) in which a handler calls input again still
\* shifts every state that was current when it began out of srcStates in its
\* own first pass, and returns what it would have returned without the
\* handler.
C38_ReentrantInputLeavesOuterCall ==
    [][lastCall'.op = "input" /\ lastCall'.err = "none" /\ HasReentered(lastCall')
        => /\ lastCall'.passes[1] = cState
           /\ lastCall'.ret =
                input(WithoutReentry(states), events, cState, lastCall'.sym, 1, << >>).cState
      ]_vars

====
